---- MODULE Spec2Model ----
(***************************************************************************)
(* Model of src/charm.py (OnosCharm): the stored state of the charm, the   *)
(* two lifecycle observers, the action observers and the helpers they      *)
(* call.  One action of the model is one dispatched event (one hook).      *)
(*                                                                         *)
(* A handler is computed as a function over a "machine" record m that      *)
(* carries the stored state, the container's files and service, the        *)
(* remote calls issued so far and the exception (if any) that is           *)
(* propagating.  Every helper first looks at m.exc: once an exception is   *)
(* raised the remaining statements of the handler are skipped, as in       *)
(* Python.                                                                 *)
(*                                                                         *)
(* Action observers catch every Exception and call event.fail, so the      *)
(* hook ends normally and the stored state, as mutated so far, is saved.   *)
(* Lifecycle observers catch only ConfigMissingException; any other        *)
(* exception leaves the observer.  charm.py itself undoes nothing in that  *)
(* case, while the hosting framework (main(), line 540) saves StoredState  *)
(* only at the end of a hook; the model therefore lets the stored state    *)
(* after such a hook be either the one mutated so far or the one before    *)
(* the hook.  Effects outside the stored state (files pushed, remote       *)
(* calls, service start/stop) always remain.                               *)
(***************************************************************************)
EXTENDS Naturals, Sequences, FiniteSets, TLC

VARIABLES
    apps,        \* _stored.apps: set of active application ids
    started,     \* _stored.started
    ready,       \* _stored.ready
    users,       \* _stored.users: dict, as sequence of [name, password, group]
    groups,      \* _stored.groups: dict, as sequence of [name, roles]
    deferred,    \* lifecycle events deferred by event.defer()
    status,      \* unit status
    config,      \* juju config of the application
    catalog,     \* names listed in /root/onos/apps of the container
    karaf,       \* directories of /root/onos matching apache-karaf-*
    usersFile,   \* etc/users.properties, as a sequence of lines
    logging,     \* etc/org.ops4j.pax.logging.cfg, as a sequence of chunks
    loggingInit, \* content of the logging file when the unit was created
    svc,         \* pebble service "onos": "none" (no layer), "inactive", "active"
    layer,       \* ONOS_APPS of the pebble layer, NoLayer before add_layer
    svcEnv,      \* ONOS_APPS the running/last started service was started with
    result,      \* what the last dispatched event did and reported
    events       \* number of events dispatched and configuration changes so far

stored == <<apps, started, ready, users, groups, deferred>>
vars == <<apps, started, ready, users, groups, deferred, status, config,
          catalog, karaf, usersFile, logging, loggingInit, svc, layer,
          svcEnv, result, events>>

---------------------------------------------------------------------------
(* Module constants of charm.py *)

SYS_APP == "org.onosproject.drivers"
GUI_APP == "org.onosproject.gui2"

ALL_ROLES == <<"group", "admin", "manager", "viewer", "systembundles",
               "ssh", "webconsole">>

ADMIN_USERNAME == "admin"
ADMIN_GROUP_NAME == "admingroup"
GUEST_USERNAME == "guest"
GUEST_GROUP_NAME == "guestgroup"

DEFAULT_GROUPS == << [name |-> ADMIN_GROUP_NAME, roles |-> ALL_ROLES],
                     [name |-> GUEST_GROUP_NAME, roles |-> <<"group", "viewer">>] >>

\* ASYNC_LOGGING = "\nlog4j.appender.async=...\nlog4j.appender.async.appenders=rolling\n"
\* as chunks: "\n" is a newline, the two others are the two lines' text.
ASYNC_LOGGING == <<"\n", "log4j.appender.async=org.apache.log4j.AsyncAppender", "\n",
                   "log4j.appender.async.appenders=rolling", "\n">>

---------------------------------------------------------------------------
(* Values of the model *)

NoValue == "<unset>"          \* a config key that is not in self.config
NoExc == "<no exception>"
NoLayer == {"<no layer>"}

\* exceptions, named by the message or type the code raises
ConfigMissingAdmin == "ConfigMissingException: admin-password"
ConfigMissingGuest == "ConfigMissingException: guest-password"
UnknownApplication == "Application does not exist."
AlreadyActive == "application is already active"
NotActive == "application is not active"
UnknownGroup == "group does not exist"
DuplicateUser == "user already exists"
ReservedUser == "username is reserved"
UnknownUser == "user does not exist"
ReservedGroup == "groupname is reserved"
InvalidRole == "role(s) not exist"
RolesNotString == "roles must be a string"
RoleNotAlnum == "role is not alphanumeric"
KeyError == "KeyError"
IndexError == "IndexError"
ConnectionError == "requests.ConnectionError"
ServiceNotFound == "ModelError: service not found"
AlreadyRunning == "onos service is already active"
NotRunning == "onos service is not running"

ConfigMissing == {ConfigMissingAdmin, ConfigMissingGuest}

---------------------------------------------------------------------------
(* Inputs *)

UnknownApp == "org.example.unknown"
AppNames == {SYS_APP, GUI_APP, UnknownApp}

\* what the container image holds: the names listed in /root/onos/apps,
\* the directories matching apache-karaf-* under /root/onos and the
\* logging configuration (plain, or already holding the two lines of the
\* snippet without the final newline)
PlainLogging == <<"log4j.rootLogger=INFO", "\n">>
Images ==
    { [catalog |-> {SYS_APP, GUI_APP}, karaf |-> <<"apache-karaf-4.2.9">>,
       logging |-> PlainLogging],
      [catalog |-> {GUI_APP}, karaf |-> <<"apache-karaf-4.2.9">>,
       logging |-> <<"log4j.rootLogger=INFO", "\n",
                     "log4j.appender.async=org.apache.log4j.AsyncAppender", "\n",
                     "log4j.appender.async.appenders=rolling">>],
      [catalog |-> {SYS_APP}, karaf |-> << >>, logging |-> PlainLogging] }

AdminPasswords == {"a1", "a2"}
GuestPasswords == {"g1"}

UserNames == {ADMIN_USERNAME, GUEST_USERNAME, "alice"}

\* the parameters of add-user: username, password, group
AddUserParams ==
    { <<ADMIN_USERNAME, "pw", ADMIN_GROUP_NAME>>, <<ADMIN_USERNAME, "pw", "qa">>,
      <<GUEST_USERNAME, "pw", GUEST_GROUP_NAME>>, <<"alice", "pw", "qa">> }

GroupNames == {ADMIN_GROUP_NAME, "qa"}

\* the "roles" parameter of add-group: a string, as a sequence of chunks;
\* "," is the separator, " " a non-alphanumeric character, the others are
\* alphanumeric words.
RolesParams ==
    { <<"viewer", ",", "admin">>,
      <<"bogus", ",", "viewer", ",", "nope">>,
      <<"vi", " ", "ewer">>,
      << >> }

\* the parameters of add-group: groupname, roles
AddGroupParams ==
    ({"qa"} \X RolesParams)
    \cup { <<ADMIN_GROUP_NAME, <<"viewer", ",", "admin">> >>,
           <<GUEST_GROUP_NAME, <<"viewer", ",", "bogus">> >> }

InitialUsersFile == <<"<image default>">>

---------------------------------------------------------------------------
(* dict helpers: a dict is a sequence of entries with distinct names, in   *)
(* insertion order                                                          *)

Keys(d) == {d[i].name : i \in 1..Len(d)}

Range(s) == {s[i] : i \in 1..Len(s)}

\* d[k]
Get(d, k) == LET i == CHOOSE j \in 1..Len(d) : d[j].name = k IN d[i]

\* d.update({k: v}): an existing key keeps its place
Update(d, e) ==
    IF e.name \in Keys(d)
    THEN [i \in 1..Len(d) |-> IF d[i].name = e.name THEN e ELSE d[i]]
    ELSE Append(d, e)

\* d.pop(k), k in d
Pop(d, k) == SelectSeq(d, LAMBDA e : e.name # k)


---------------------------------------------------------------------------
(* The machine record a handler runs on *)

Machine ==
    [apps |-> apps, started |-> started, ready |-> ready, users |-> users,
     groups |-> groups, usersFile |-> usersFile, logging |-> logging,
     svc |-> svc, layer |-> layer, svcEnv |-> svcEnv,
     calls |-> << >>,      \* remote calls issued by this handler
     logWrites |-> 0,      \* pushes of the logging file by this handler
     exc |-> NoExc,        \* the exception propagating, if any
     detail |-> << >>]     \* the list the exception message carries

Raise(m, e) == [m EXCEPT !.exc = e]

RaiseWith(m, e, d) == [m EXCEPT !.exc = e, !.detail = d]

---------------------------------------------------------------------------
(* ONOS operations: applications *)

_get_available_apps == catalog

\* mutant: the catalog is not consulted
_check_app_exists_skipped(m, name) == m

_check_app_exists(m, name) ==
    IF m.exc # NoExc THEN m
    ELSE IF name \notin _get_available_apps THEN Raise(m, UnknownApplication)
    ELSE m

\* requests.post / requests.delete on .../applications/{name}/active with
\* auth=(ADMIN_USERNAME, self.config["admin-password"]).  The auth tuple is
\* evaluated first (KeyError when the key is unset); the request reaches
\* the REST API only if the service runs, and raises ConnectionError
\* otherwise.  Each request is recorded with whether the service ran.
RemoteCall(m, method, name) ==
    IF config.adminPassword = NoValue THEN Raise(m, KeyError)
    ELSE LET running == (m.svc = "active")
             m1 == [m EXCEPT !.calls = Append(@, [method |-> method, name |-> name,
                                                  password |-> config.adminPassword,
                                                  running |-> running])]
         IN IF running THEN m1 ELSE Raise(m1, ConnectionError)

\* mutant: the remote call comes before the update of the set
_activate_app_call_first(m, name) ==
    IF m.exc # NoExc THEN m
    ELSE LET m1 == _check_app_exists(m, name) IN
         IF m1.exc # NoExc THEN m1
         ELSE IF name \in m1.apps THEN Raise(m1, AlreadyActive)
         ELSE LET m2 == IF m1.started THEN RemoteCall(m1, "POST", name) ELSE m1 IN
              IF m2.exc # NoExc THEN m2 ELSE [m2 EXCEPT !.apps = @ \cup {name}]

\* mutant: no already-active guard
_activate_app_unguarded(m, name) ==
    IF m.exc # NoExc THEN m
    ELSE LET m1 == _check_app_exists(m, name) IN
         IF m1.exc # NoExc THEN m1
         ELSE LET m2 == [m1 EXCEPT !.apps = @ \cup {name}] IN
              IF m2.started THEN RemoteCall(m2, "POST", name) ELSE m2

\* mutant: the set is not updated
_activate_app_not_recorded(m, name) ==
    IF m.exc # NoExc THEN m
    ELSE LET m1 == _check_app_exists(m, name) IN
         IF m1.exc # NoExc THEN m1
         ELSE IF name \in m1.apps THEN Raise(m1, AlreadyActive)
         ELSE IF m1.started THEN RemoteCall(m1, "POST", name) ELSE m1

_activate_app(m, name) ==
    IF m.exc # NoExc THEN m
    ELSE LET m1 == _check_app_exists(m, name) IN
         IF m1.exc # NoExc THEN m1
         ELSE IF name \in m1.apps THEN Raise(m1, AlreadyActive)
         ELSE LET m2 == [m1 EXCEPT !.apps = @ \cup {name}] IN
              IF m2.started THEN RemoteCall(m2, "POST", name) ELSE m2

_deactivate_app(m, name) ==
    IF m.exc # NoExc THEN m
    ELSE LET m1 == _check_app_exists(m, name) IN
         IF m1.exc # NoExc THEN m1
         ELSE IF name \notin m1.apps THEN Raise(m1, NotActive)
         ELSE LET m2 == [m1 EXCEPT !.apps = @ \ {name}] IN
              IF m2.started THEN RemoteCall(m2, "DELETE", name) ELSE m2

---------------------------------------------------------------------------
(* Pebble / service functions *)

\* add_layer("onos", {... "ONOS_APPS": self.onos_apps ...}, combine=True)
_add_onos_layer(m) ==
    IF m.exc # NoExc THEN m
    ELSE [m EXCEPT !.layer = m.apps,
                   !.svc = IF @ = "none" THEN "inactive" ELSE @]

\* self.onos_service raises when the plan has no service "onos"
_restart_onos(m) ==
    IF m.exc # NoExc THEN m
    ELSE IF m.svc = "none" THEN Raise(m, ServiceNotFound)
    ELSE [m EXCEPT !.svc = "active", !.svcEnv = m.layer]

_start_onos(m) ==
    IF m.exc # NoExc THEN m
    ELSE IF m.svc = "none" THEN Raise(m, ServiceNotFound)
    ELSE IF m.svc = "active" THEN Raise(m, AlreadyRunning)
    ELSE [m EXCEPT !.svc = "active", !.svcEnv = m.layer]

_stop_onos(m) ==
    IF m.exc # NoExc THEN m
    ELSE IF m.svc = "none" THEN Raise(m, ServiceNotFound)
    ELSE IF m.svc # "active" THEN Raise(m, NotRunning)
    ELSE [m EXCEPT !.svc = "inactive"]

---------------------------------------------------------------------------
(* Helper functions *)

\* files[0] of the directories matching apache-karaf-*: IndexError if none
_get_apache_karaf_folder_path(m) ==
    IF m.exc # NoExc THEN m
    ELSE IF karaf = << >> THEN Raise(m, IndexError)
    ELSE m

\* roles.split(","): the chunks between separators, concatenated
RECURSIVE Split(_, _)
Split(raw, cur) ==
    IF raw = << >> THEN <<cur>>
    ELSE IF Head(raw) = "," THEN <<cur>> \o Split(Tail(raw), << >>)
    ELSE Split(Tail(raw), Append(cur, Head(raw)))

RECURSIVE Concat(_)
Concat(chunks) == IF chunks = << >> THEN "" ELSE Head(chunks) \o Concat(Tail(chunks))

\* str.isalnum(): non-empty and no non-alphanumeric character
IsAlnum(chunks) == chunks # << >> /\ \A i \in 1..Len(chunks) : chunks[i] # " "

\* mutant: the tokens come back in reverse order
_parse_roles_reversed(raw) ==
    IF raw = << >> THEN [exc |-> RolesNotString, roles |-> << >>]
    ELSE LET role_list == Split(raw, << >>)
             n == Len(role_list) IN
         IF \E i \in 1..n : ~IsAlnum(role_list[i])
         THEN [exc |-> RoleNotAlnum, roles |-> << >>]
         ELSE [exc |-> NoExc,
               roles |-> [i \in 1..n |-> Concat(role_list[n + 1 - i])]]

\* returns [exc, roles]: ValueError on an empty string or a token that is
\* not alphanumeric, else the list of tokens
_parse_roles(raw) ==
    IF raw = << >> THEN [exc |-> RolesNotString, roles |-> << >>]
    ELSE LET role_list == Split(raw, << >>) IN
         IF \E i \in 1..Len(role_list) : ~IsAlnum(role_list[i])
         THEN [exc |-> RoleNotAlnum, roles |-> << >>]
         ELSE [exc |-> NoExc,
               roles |-> [i \in 1..Len(role_list) |-> Concat(role_list[i])]]

---------------------------------------------------------------------------
(* Credentials file *)

RECURSIVE Join(_)
Join(roles) ==
    IF roles = << >> THEN ""
    ELSE IF Len(roles) = 1 THEN roles[1]
    ELSE roles[1] \o "," \o Join(Tail(roles))

\* Template(USERS_TEMPLATE).render(users=..., groups=...), as lines
USERS_TEMPLATE(us, gs) ==
    <<"">>
    \o [i \in 1..Len(us) |-> us[i].name \o " = " \o us[i].password \o ",_g_:" \o us[i].group]
    \o <<"", "">>
    \o [i \in 1..Len(gs) |-> "_g_\\:" \o gs[i].name \o " = " \o Join(gs[i].roles)]

---------------------------------------------------------------------------
(* Configuration *)

\* mutant: guest-password is required whatever enable-guest says
_check_config_guest_always(m) ==
    IF m.exc # NoExc THEN m
    ELSE IF config.adminPassword = NoValue THEN Raise(m, ConfigMissingAdmin)
    ELSE IF config.guestPassword = NoValue THEN Raise(m, ConfigMissingGuest)
    ELSE m

_check_config(m) ==
    IF m.exc # NoExc THEN m
    ELSE IF config.adminPassword = NoValue THEN Raise(m, ConfigMissingAdmin)
    ELSE IF config.enableGuest /\ config.guestPassword = NoValue
         THEN Raise(m, ConfigMissingGuest)
    ELSE m

_configure_gui_app(m) ==
    IF m.exc # NoExc THEN m
    ELSE LET gui_enabled == GUI_APP \in m.apps
             config_enable_gui == config.enableGui
         IN IF config_enable_gui /\ ~gui_enabled THEN _activate_app(m, GUI_APP)
            ELSE IF ~config_enable_gui /\ gui_enabled THEN _deactivate_app(m, GUI_APP)
            ELSE m

\* mutant: the guest user is seeded whatever enable-guest says
SeedGuest_always(m) ==
    IF m.exc # NoExc \/ GUEST_USERNAME \in Keys(m.users) THEN m
    ELSE IF config.guestPassword = NoValue THEN Raise(m, KeyError)
    ELSE [m EXCEPT !.users = Update(@, [name |-> GUEST_USERNAME,
                                        password |-> config.guestPassword,
                                        group |-> GUEST_GROUP_NAME])]

\* self.users.update(self.admin_user): config["admin-password"] is a KeyError
\* when unset
SeedAdmin(m) ==
    IF m.exc # NoExc \/ ADMIN_USERNAME \in Keys(m.users) THEN m
    ELSE IF config.adminPassword = NoValue THEN Raise(m, KeyError)
    ELSE [m EXCEPT !.users = Update(@, [name |-> ADMIN_USERNAME,
                                        password |-> config.adminPassword,
                                        group |-> ADMIN_GROUP_NAME])]

SeedGuest(m) ==
    IF m.exc # NoExc \/ ~config.enableGuest \/ GUEST_USERNAME \in Keys(m.users) THEN m
    ELSE IF config.guestPassword = NoValue THEN Raise(m, KeyError)
    ELSE [m EXCEPT !.users = Update(@, [name |-> GUEST_USERNAME,
                                        password |-> config.guestPassword,
                                        group |-> GUEST_GROUP_NAME])]

SeedGroups(m) ==
    IF m.exc # NoExc THEN m
    ELSE IF \A i \in 1..Len(DEFAULT_GROUPS) : DEFAULT_GROUPS[i].name \notin Keys(m.groups)
         THEN [m EXCEPT !.groups = Update(Update(@, DEFAULT_GROUPS[1]), DEFAULT_GROUPS[2])]
    ELSE m

PushUsers(m) ==
    IF m.exc # NoExc THEN m
    ELSE IF m.ready /\ karaf # << >>
         THEN [m EXCEPT !.usersFile = USERS_TEMPLATE(m.users, m.groups)]
    ELSE m

_configure_users_and_groups(m) ==
    PushUsers(SeedGroups(SeedGuest(SeedAdmin(_get_apache_karaf_folder_path(m)))))

\* no state of its own: forwards external-hostname to the ingress relation
_configure_ingress(m) == m

\* ASYNC_LOGGING in logging_content
RECURSIVE Find(_, _, _)
Find(content, snippet, from) ==
    IF from + Len(snippet) - 1 > Len(content) THEN 0
    ELSE IF SubSeq(content, from, from + Len(snippet) - 1) = snippet THEN from
    ELSE Find(content, snippet, from + 1)

Contains(content, snippet) == Find(content, snippet, 1) # 0

\* mutant: the snippet is appended without looking at the content
_configure_async_logging_unchecked(m) ==
    LET m1 == _get_apache_karaf_folder_path(m) IN
    IF m1.exc # NoExc THEN m1
    ELSE IF m1.ready /\ karaf # << >>
         THEN [m1 EXCEPT !.logging = @ \o ASYNC_LOGGING, !.logWrites = @ + 1]
    ELSE m1

_configure_async_logging(m) ==
    LET m1 == _get_apache_karaf_folder_path(m) IN
    IF m1.exc # NoExc THEN m1
    ELSE IF m1.ready /\ karaf # << >>
         THEN IF ~Contains(m1.logging, ASYNC_LOGGING)
              THEN [m1 EXCEPT !.logging = @ \o ASYNC_LOGGING, !.logWrites = @ + 1]
              ELSE m1
    ELSE m1

\* mutant: the GUI application is converged before the configuration is checked
_configure_gui_first(m) ==
    _configure_async_logging(
        _configure_ingress(
            _configure_users_and_groups(
                _check_config(
                    _configure_gui_app(m)))))

_configure(m) ==
    _configure_async_logging(
        _configure_ingress(
            _configure_users_and_groups(
                _configure_gui_app(
                    _check_config(m)))))

---------------------------------------------------------------------------
(* ONOS operations: users and groups *)

\* mutant: the group of a new user is not looked up
_add_user_any_group(m, username, password, group) ==
    IF m.exc # NoExc THEN m
    ELSE IF username \in Keys(m.users) THEN Raise(m, DuplicateUser)
    ELSE IF username \in {ADMIN_USERNAME, GUEST_USERNAME} THEN Raise(m, ReservedUser)
    ELSE _configure_users_and_groups(
             [m EXCEPT !.users = Update(@, [name |-> username, password |-> password,
                                            group |-> group])])

\* mutant: the user is stored before the checks
_add_user_update_first(m, username, password, group) ==
    IF m.exc # NoExc THEN m
    ELSE LET m1 == [m EXCEPT !.users = Update(@, [name |-> username, password |-> password,
                                                 group |-> group])]
         IN IF group \notin Keys(m.groups) THEN Raise(m1, UnknownGroup)
            ELSE IF username \in Keys(m.users) THEN Raise(m1, DuplicateUser)
            ELSE IF username \in {ADMIN_USERNAME, GUEST_USERNAME} THEN Raise(m1, ReservedUser)
            ELSE _configure_users_and_groups(m1)

_add_user(m, username, password, group) ==
    IF m.exc # NoExc THEN m
    ELSE IF group \notin Keys(m.groups) THEN Raise(m, UnknownGroup)
    ELSE IF username \in Keys(m.users) THEN Raise(m, DuplicateUser)
    ELSE IF username \in {ADMIN_USERNAME, GUEST_USERNAME} THEN Raise(m, ReservedUser)
    ELSE _configure_users_and_groups(
             [m EXCEPT !.users = Update(@, [name |-> username, password |-> password,
                                            group |-> group])])

\* mutant: the credentials file is not rendered again
_add_group_not_pushed(m, groupname, roles) ==
    IF m.exc # NoExc THEN m
    ELSE IF groupname \in {ADMIN_GROUP_NAME, GUEST_GROUP_NAME} THEN Raise(m, ReservedGroup)
    ELSE LET non_existing_roles == SelectSeq(roles, LAMBDA role : role \notin Range(ALL_ROLES))
         IN IF non_existing_roles # << >>
            THEN RaiseWith(m, InvalidRole, non_existing_roles)
            ELSE [m EXCEPT !.groups = Update(@, [name |-> groupname, roles |-> roles])]

\* mutant: only the first role that does not exist is reported
_add_group_first_role(m, groupname, roles) ==
    IF m.exc # NoExc THEN m
    ELSE IF groupname \in {ADMIN_GROUP_NAME, GUEST_GROUP_NAME} THEN Raise(m, ReservedGroup)
    ELSE LET non_existing_roles == SelectSeq(roles, LAMBDA role : role \notin Range(ALL_ROLES))
         IN IF non_existing_roles # << >>
            THEN RaiseWith(m, InvalidRole, <<non_existing_roles[1]>>)
            ELSE _configure_users_and_groups(
                     [m EXCEPT !.groups = Update(@, [name |-> groupname, roles |-> roles])])

_add_group(m, groupname, roles) ==
    IF m.exc # NoExc THEN m
    ELSE IF groupname \in {ADMIN_GROUP_NAME, GUEST_GROUP_NAME} THEN Raise(m, ReservedGroup)
    ELSE LET non_existing_roles == SelectSeq(roles, LAMBDA role : role \notin Range(ALL_ROLES))
         IN IF non_existing_roles # << >>
            THEN RaiseWith(m, InvalidRole, non_existing_roles)
            ELSE _configure_users_and_groups(
                     [m EXCEPT !.groups = Update(@, [name |-> groupname, roles |-> roles])])

\* mutant: reserved users are not protected
_delete_user_unguarded(m, username) ==
    IF m.exc # NoExc THEN m
    ELSE IF username \notin Keys(m.users) THEN Raise(m, UnknownUser)
    ELSE _configure_users_and_groups([m EXCEPT !.users = Pop(@, username)])

_delete_user(m, username) ==
    IF m.exc # NoExc THEN m
    ELSE IF username \notin Keys(m.users) THEN Raise(m, UnknownUser)
    ELSE IF username \in {ADMIN_USERNAME, GUEST_USERNAME} THEN Raise(m, ReservedUser)
    ELSE _configure_users_and_groups([m EXCEPT !.users = Pop(@, username)])

\* self.groups.pop(groupname) is a KeyError for a group that is not there
_delete_group(m, groupname) ==
    IF m.exc # NoExc THEN m
    ELSE IF groupname \in {ADMIN_GROUP_NAME, GUEST_GROUP_NAME} THEN Raise(m, ReservedGroup)
    ELSE IF groupname \notin Keys(m.groups) THEN Raise(m, KeyError)
    ELSE _configure_users_and_groups([m EXCEPT !.groups = Pop(@, groupname)])

---------------------------------------------------------------------------
(* Dispatch of one event *)

\* a run is followed for MaxEvents events and configuration changes
MaxEvents == 4

Tick == events < MaxEvents /\ events' = events + 1

NoResult ==
    [op |-> "init", arg |-> << >>, failed |-> FALSE, msg |-> NoExc, detail |-> << >>,
     calls |-> << >>, logWrites |-> 0, committed |-> TRUE, gui |-> "n/a",
     enableGui |-> FALSE, addedUsers |-> {}, addedGroups |-> {}]

\* gui: how the GUI-convergence step of a reconciliation pass ended;
\* addedUsers, addedGroups: the names the handler added to the dicts
Report(op, arg, m, committed, gui) ==
    [op |-> op, arg |-> arg, failed |-> m.exc # NoExc, msg |-> m.exc,
     detail |-> m.detail, calls |-> m.calls, logWrites |-> m.logWrites,
     committed |-> committed, gui |-> gui, enableGui |-> config.enableGui,
     addedUsers |-> Keys(m.users) \ Keys(users),
     addedGroups |-> Keys(m.groups) \ Keys(groups)]

StoredOf(m) == <<m.apps, m.started, m.ready, m.users, m.groups>>

\* the container and the service keep what the handler did to them
Effects(m) ==
    /\ usersFile' = m.usersFile
    /\ logging' = m.logging
    /\ svc' = m.svc
    /\ layer' = m.layer
    /\ svcEnv' = m.svcEnv
    /\ UNCHANGED <<config, catalog, karaf, loggingInit>>

Save(m) ==
    /\ apps' = m.apps
    /\ started' = m.started
    /\ ready' = m.ready
    /\ users' = m.users
    /\ groups' = m.groups

\* an action observer: "except Exception as e: event.fail(...)"
Action(op, arg, m) ==
    /\ Tick
    /\ Effects(m)
    /\ Save(m)
    /\ UNCHANGED <<deferred, status>>
    /\ result' = Report(op, arg, m, TRUE, "n/a")

GuiOutcome(m0) ==
    LET c == _check_config(m0)
        g == _configure_gui_app(c)
    IN IF c.exc # NoExc THEN "skipped"
       ELSE IF g.exc # NoExc THEN "raised"
       ELSE "done"

\* a lifecycle observer: ConfigMissingException blocks the unit and defers
\* the event; any other exception leaves the observer (hook error)
Lifecycle(ev, redelivered, m0, m) ==
    /\ Tick
    /\ Effects(m)
    /\ IF m.exc = NoExc
       THEN /\ Save(m)
            /\ status' = "active"
            /\ deferred' = IF redelivered THEN deferred \ {ev} ELSE deferred
            /\ result' = Report(ev, << >>, m, TRUE, GuiOutcome(m0))
       ELSE IF m.exc \in ConfigMissing
       THEN /\ Save(m)
            /\ status' = "blocked"
            /\ deferred' = deferred \cup {ev}
            /\ result' = Report(ev, << >>, m, TRUE, GuiOutcome(m0))
       ELSE /\ \E keep \in (IF StoredOf(m) = StoredOf(Machine) THEN {TRUE} ELSE BOOLEAN) :
                 /\ IF keep THEN Save(m) ELSE UNCHANGED <<apps, started, ready, users, groups>>
                 /\ result' = Report(ev, << >>, m, keep, GuiOutcome(m0))
            /\ status' = "error"
            /\ UNCHANGED deferred

---------------------------------------------------------------------------
(* Lifecycle observers *)

_on_config_changed(redelivered) ==
    /\ redelivered => "config_changed" \in deferred
    /\ Lifecycle("config_changed", redelivered, Machine, _configure(Machine))

\* mutant: the started flag is set together with the ready flag
_on_onos_pebble_ready_started_first(redelivered) ==
    /\ redelivered => "onos_pebble_ready" \in deferred
    /\ LET m0 == [Machine EXCEPT !.ready = TRUE, !.started = TRUE]
           m1 == _restart_onos(_add_onos_layer(_configure(m0)))
       IN Lifecycle("onos_pebble_ready", redelivered, m0, m1)

_on_onos_pebble_ready(redelivered) ==
    /\ redelivered => "onos_pebble_ready" \in deferred
    /\ LET m0 == [Machine EXCEPT !.ready = TRUE]
           m1 == _restart_onos(_add_onos_layer(_configure(m0)))
           m2 == IF m1.exc = NoExc THEN [m1 EXCEPT !.started = TRUE] ELSE m1
       IN Lifecycle("onos_pebble_ready", redelivered, m0, m2)

---------------------------------------------------------------------------
(* Action observers *)

_on_activate_app_action ==
    \E app_name \in AppNames :
        Action("activate_app", <<app_name>>, _activate_app(Machine, app_name))

_on_deactivate_app_action ==
    \E app_name \in AppNames :
        Action("deactivate_app", <<app_name>>, _deactivate_app(Machine, app_name))

_on_restart_action == Action("restart", << >>, _restart_onos(Machine))

_on_start_action == Action("start", << >>, _start_onos(Machine))

_on_stop_action == Action("stop", << >>, _stop_onos(Machine))

_on_add_user_action ==
    \E params \in AddUserParams :
        LET username == params[1]
            password == params[2]
            group == params[3]
        IN Action("add_user", params, _add_user(Machine, username, password, group))

AddGroupEvent(params) ==
    LET groupname == params[1]
        parsed == _parse_roles(params[2])
    IN
    Action("add_group", params,
           IF parsed.exc # NoExc THEN Raise(Machine, parsed.exc)
           ELSE _add_group(Machine, groupname, parsed.roles))

_on_add_group_action == \E params \in AddGroupParams : AddGroupEvent(params)

_on_delete_user_action ==
    \E username \in UserNames :
        Action("delete_user", <<username>>, _delete_user(Machine, username))

_on_delete_group_action ==
    \E groupname \in GroupNames :
        Action("delete_group", <<groupname>>, _delete_group(Machine, groupname))

---------------------------------------------------------------------------
(* The operator changes the configuration (juju config) *)

Configs ==
    [adminPassword : AdminPasswords \cup {NoValue},
     guestPassword : GuestPasswords \cup {NoValue},
     enableGuest : BOOLEAN, enableGui : BOOLEAN]

JujuConfig ==
    /\ Tick
    /\ \E c \in Configs :
          /\ c # config
          /\ \E k \in DOMAIN c : \A j \in DOMAIN c \ {k} : c[j] = config[j]
          /\ config' = c
    /\ result' = [NoResult EXCEPT !.op = "juju config"]
    /\ UNCHANGED <<apps, started, ready, users, groups, deferred, status, catalog,
                   karaf, usersFile, logging, loggingInit, svc, layer, svcEnv>>

---------------------------------------------------------------------------
(* The unit after construction: _stored.set_default(...) *)

Init ==
    /\ apps = {SYS_APP}
    /\ started = FALSE
    /\ ready = FALSE
    /\ users = << >>
    /\ groups = << >>
    /\ deferred = {}
    /\ status = "maintenance"
    /\ config \in Configs
    /\ \E image \in Images :
          /\ catalog = image.catalog
          /\ karaf = image.karaf
          /\ logging = image.logging
    /\ usersFile = InitialUsersFile
    /\ loggingInit = logging
    /\ svc = "none"
    /\ layer = NoLayer
    /\ svcEnv = NoLayer
    /\ result = NoResult
    /\ events = 0

Next ==
    \/ \E redelivered \in BOOLEAN : _on_config_changed(redelivered)
    \/ \E redelivered \in BOOLEAN : _on_onos_pebble_ready(redelivered)
    \/ _on_activate_app_action
    \/ _on_deactivate_app_action
    \/ _on_restart_action
    \/ _on_start_action
    \/ _on_stop_action
    \/ _on_add_user_action
    \/ _on_add_group_action
    \/ _on_delete_user_action
    \/ _on_delete_group_action
    \/ JujuConfig

\* the roles parameter of add-group as any string of at most MaxRoleChunks
\* pieces: role names, an unknown name, the separator and a blank
MaxRoleChunks == 3

RoleChunks == {"viewer", "admin", "bogus", ",", " "}

RoleStrings == UNION { [1..n -> RoleChunks] : n \in 0..MaxRoleChunks }

AnyAddGroup ==
    /\ events = 0
    /\ \E groupname \in GroupNames, raw \in RoleStrings : AddGroupEvent(<<groupname, raw>>)

\* a unit whose first event is an add-group command with any roles string
SpecRoles == Init /\ [][AnyAddGroup]_vars

Spec == Init /\ [][Next]_vars

---------------------------------------------------------------------------
(* Properties *)

Passes == {"config_changed", "onos_pebble_ready"}

Reserved == {ADMIN_USERNAME, GUEST_USERNAME}

\* str.count: occurrences of the snippet, counted left to right without overlap
RECURSIVE Count(_, _)
Count(content, snippet) ==
    LET at == Find(content, snippet, 1) IN
    IF at = 0 THEN 0
    ELSE 1 + Count(SubSeq(content, at + Len(snippet), Len(content)), snippet)

\* C1: in every reachable state the mandatory system application
\* (org.onosproject.drivers) is a member of the Active-Application Set.
C1_SysAppAlwaysActive == SYS_APP \in apps

\* C2: activate(id) and deactivate(id) of an id that the catalog does not
\* list fail with the unknown-application error, issue no remote call and
\* leave the Active-Application Set as it was, member of the set or not.
C2_UnknownApplicationRejected ==
    [][ (result'.op \in {"activate_app", "deactivate_app"} /\ result'.arg[1] \notin catalog)
        => /\ result'.failed
           /\ result'.msg = UnknownApplication
           /\ result'.calls = << >>
           /\ apps' = apps ]_vars

C2_Witness ==
    /\ result.op = "deactivate_app"
    /\ result.arg[1] \notin catalog
    /\ result.arg[1] \in apps
    /\ result.msg = UnknownApplication

\* C3: for an id of the catalog, an activate(id) that directly follows an
\* activate(id) fails with the already-active error, the set holds id and is
\* not changed by the second call, and the two calls together issued at most
\* one remote call; deactivate(id) of an id that is not in the set fails
\* with the not-active error, issues no remote call and changes nothing.
C3_ActivateTwice ==
    [][ /\ (/\ result.op = "activate_app"
            /\ result'.op = "activate_app"
            /\ result'.arg = result.arg
            /\ result.arg[1] \in catalog)
           => /\ result'.msg = AlreadyActive
              /\ result.arg[1] \in apps'
              /\ apps' = apps
              /\ Len(result.calls) + Len(result'.calls) <= 1
        /\ (/\ result'.op = "deactivate_app"
            /\ result'.arg[1] \in catalog
            /\ result'.arg[1] \notin apps)
           => /\ result'.msg = NotActive
              /\ result'.calls = << >>
              /\ apps' = apps ]_vars

C3_Witness ==
    /\ result.op = "activate_app"
    /\ result.arg = <<GUI_APP>>
    /\ result.msg = AlreadyActive
    /\ started
    /\ svc = "active"

\* C4: every remote activation or deactivation call is issued while the
\* managed service process is running.
C4_RemoteCallOnlyWhenRunning ==
    \A i \in 1..Len(result.calls) : result.calls[i].running

C6_ValidationFailureOriginal ==
    [][ (result'.op \in Passes /\ result'.msg \in ConfigMissing)
        => UNCHANGED <<apps, users, groups, ready, started>> ]_vars

\* C6 (amended): a reconciliation pass that fails validation leaves the
\* Active-Application Set, the user and group maps and the started flag as
\* they were; the ready flag is left as it was by the config-changed handler
\* and is true after the pebble-ready handler, which sets it before it
\* validates.
C6_ValidationFailure ==
    [][ (result'.op \in Passes /\ result'.msg \in ConfigMissing)
        => /\ UNCHANGED <<apps, users, groups, started>>
           /\ UNCHANGED <<usersFile, logging, svc, layer>>
           /\ result'.calls = << >>
           /\ result'.op = "config_changed" => ready' = ready
           /\ result'.op = "onos_pebble_ready" => ready' ]_vars

C6_Witness ==
    /\ result.op = "onos_pebble_ready"
    /\ result.msg = ConfigMissingGuest
    /\ config.enableGui
    /\ GUI_APP \in catalog
    /\ GUI_APP \notin apps
    /\ ready
    /\ ~started

\* C7 (as claimed): once the admin user is seeded, addUser("admin", p, g)
\* fails with the duplicate-user error for every p and g,
\* deleteUser("admin") fails with the reserved-identifier error, and a
\* reserved user that is in the Credential Store stays in it.
C7_ReservedUsersOriginal ==
    [][ /\ (/\ ADMIN_USERNAME \in Keys(users)
            /\ result'.op = "add_user"
            /\ result'.arg[1] = ADMIN_USERNAME)
           => (result'.msg = DuplicateUser /\ users' = users)
        /\ (/\ ADMIN_USERNAME \in Keys(users)
            /\ result'.op = "delete_user"
            /\ result'.arg[1] = ADMIN_USERNAME)
           => (result'.msg = ReservedUser /\ users' = users)
        /\ \A u \in Reserved : u \in Keys(users) => u \in Keys(users') ]_vars

\* C7 (amended): once the admin user is seeded, addUser("admin", p, g)
\* fails for every p and g, with the duplicate-user error when g is an
\* existing group and with the unknown-group error when it is not;
\* deleteUser("admin") fails with the reserved-identifier error, and a
\* reserved user that is in the Credential Store stays in it.
C7_ReservedUsers ==
    [][ /\ (/\ ADMIN_USERNAME \in Keys(users)
            /\ result'.op = "add_user"
            /\ result'.arg[1] = ADMIN_USERNAME)
           => /\ result'.msg = IF result'.arg[3] \in Keys(groups)
                               THEN DuplicateUser ELSE UnknownGroup
              /\ users' = users
        /\ (/\ ADMIN_USERNAME \in Keys(users)
            /\ result'.op = "delete_user"
            /\ result'.arg[1] = ADMIN_USERNAME)
           => (result'.msg = ReservedUser /\ users' = users)
        /\ \A u \in Reserved : u \in Keys(users) => u \in Keys(users') ]_vars

C7_Witness ==
    /\ result.op = "delete_user"
    /\ result.arg[1] = ADMIN_USERNAME
    /\ result.msg = ReservedUser
    /\ ADMIN_USERNAME \in Keys(users)

AdminEntry(password) ==
    [name |-> ADMIN_USERNAME, password |-> password, group |-> ADMIN_GROUP_NAME]

GuestEntry(password) ==
    [name |-> GUEST_USERNAME, password |-> password, group |-> GUEST_GROUP_NAME]

\* a reconciliation pass that completed
PassDone(r) == r.op \in Passes /\ ~r.failed

C9_AddGroupRejected ==
    [][ (result'.op = "add_group" /\ _parse_roles(result'.arg[2]).exc = NoExc)
        => LET name == result'.arg[1]
               roles == _parse_roles(result'.arg[2]).roles
               missing == SelectSeq(roles, LAMBDA r : \A i \in 1..Len(ALL_ROLES) : ALL_ROLES[i] # r)
           IN /\ (name \notin {ADMIN_GROUP_NAME, GUEST_GROUP_NAME} /\ missing # << >>)
                 => /\ result'.msg = InvalidRole
                    /\ result'.detail = missing
                    /\ groups' = groups
                    /\ users' = users
              /\ name \in {ADMIN_GROUP_NAME, GUEST_GROUP_NAME}
                 => /\ result'.msg = ReservedGroup
                    /\ groups' = groups
                    /\ users' = users ]_vars

C9_Witness ==
    /\ result.op = "add_group"
    /\ result.arg = <<"qa", <<"bogus", ",", "viewer", ",", "nope">> >>
    /\ result.msg = InvalidRole
    /\ result.detail = <<"bogus", "nope">>

\* C10: the logging configuration holds the async-appender snippet at most
\* once more than it did when the unit was created, whatever the number of
\* reconciliation passes, and a pass that finds the snippet in the file
\* does not write the file and leaves its content unchanged.
C10_LoggingOnce ==
    [][ /\ Count(logging', ASYNC_LOGGING) <= Count(loggingInit, ASYNC_LOGGING) + 1
        /\ logging' \in {loggingInit, loggingInit \o ASYNC_LOGGING}
        /\ Contains(logging, ASYNC_LOGGING)
           => (logging' = logging /\ result'.logWrites = 0) ]_vars

C10_Witness ==
    /\ PassDone(result)
    /\ ready
    /\ result.logWrites = 0
    /\ Contains(logging, ASYNC_LOGGING)
    /\ logging = loggingInit \o ASYNC_LOGGING
    /\ status = "active"
    /\ events >= 2

Commands == {"add_user", "add_group", "delete_user", "delete_group",
             "activate_app", "deactivate_app"}

\* the errors a command raises from its checks, before it changes anything
CheckErrors == {UnknownApplication, AlreadyActive, NotActive, UnknownGroup,
                DuplicateUser, ReservedUser, UnknownUser, ReservedGroup,
                InvalidRole, RolesNotString, RoleNotAlnum}

\* C11 (as claimed): an administrative command that ends in a reported
\* failure has changed neither the Active-Application Set nor the user map
\* nor the group map.
C11_FailedCommandOriginal ==
    [][ (result'.op \in Commands /\ result'.failed)
        => UNCHANGED <<apps, users, groups>> ]_vars

\* C11 (amended): every error of an administrative command is caught and
\* reported (the unit status and the deferred events are untouched); a
\* command that fails one of its checks has changed neither the
\* Active-Application Set nor the user map nor the group map, while a
\* failure raised after the command's mutation, by the remote call of
\* activate-app and deactivate-app or by the credentials convergence step
\* that add-user, add-group, delete-user and delete-group run, leaves the
\* mutation in place.
C11_FailedCommand ==
    [][ (result'.op \in Commands /\ result'.failed)
        => /\ UNCHANGED <<status, deferred>>
           /\ result'.msg \in CheckErrors => UNCHANGED <<apps, users, groups>>
           /\ (result'.op = "activate_app" /\ result'.msg \notin CheckErrors)
              => (apps' = apps \cup {result'.arg[1]} /\ apps' # apps)
           /\ (result'.op = "deactivate_app" /\ result'.msg \notin CheckErrors)
              => (apps' = apps \ {result'.arg[1]} /\ apps' # apps)
           /\ (result'.op = "add_user" /\ result'.msg \notin CheckErrors)
              => (result'.arg[1] \in Keys(users') \ Keys(users))
           /\ (result'.op = "add_group" /\ result'.msg \notin CheckErrors)
              => result'.arg[1] \in Keys(groups')
           /\ (result'.op = "delete_user" /\ result'.msg \notin CheckErrors)
              => (result'.arg[1] \in Keys(users) \ Keys(users'))
           /\ (result'.op = "delete_group" /\ result'.msg \notin CheckErrors
               /\ result'.arg[1] \in Keys(groups))
              => result'.arg[1] \notin Keys(groups') ]_vars

C11_Witness ==
    /\ result.op = "add_group"
    /\ result.failed
    /\ result.msg = IndexError
    /\ result.arg[1] = "qa"
    /\ "qa" \in Keys(groups)

ValidConfig(c) ==
    /\ c.adminPassword # NoValue
    /\ c.enableGuest => c.guestPassword # NoValue

\* C12: a reconciliation pass that fails validation sets the unit status
\* to blocked and defers its event, and the failure is not terminal: a
\* pass that runs (redelivered or new) once the configuration is complete
\* validates again, does not fail validation, and, when it raises no other
\* error, sets the unit status to active.
C12_BlockedThenActive ==
    [][ result'.op \in Passes
        => /\ result'.msg \in ConfigMissing
              => (status' = "blocked" /\ result'.op \in deferred')
           /\ ValidConfig(config) => result'.msg \notin ConfigMissing
           /\ ~ValidConfig(config) => result'.msg \in ConfigMissing
           /\ ~result'.failed => status' = "active" ]_vars

C12_Witness ==
    /\ PassDone(result)
    /\ status = "active"
    /\ deferred # {}

ParseErrors == {RolesNotString, RoleNotAlnum}

\* some comma-separated token of raw is empty or holds a blank
BadToken(raw) ==
    \/ raw[1] = ","
    \/ raw[Len(raw)] = ","
    \/ \E i \in 1..Len(raw) : raw[i] = " "
    \/ \E i \in 1..(Len(raw) - 1) : raw[i] = "," /\ raw[i + 1] = ","

Commas(raw) == Cardinality({i \in 1..Len(raw) : raw[i] = ","})

\* C13: add-group parses its roles parameter first: the empty string is
\* rejected as invalid input and a string with a token that is not
\* alphanumeric as an invalid role, in both cases before the catalog check,
\* the reserved-name check and any change of the maps; any other string is
\* split at the commas into its tokens in input order (viewer,admin gives
\* viewer then admin), which is what an accepted group stores.
C13_ParseRoles ==
    [][ result'.op = "add_group"
        => LET groupname == result'.arg[1]
               raw == result'.arg[2]
               msg == result'.msg
           IN /\ (raw = << >>) <=> (msg = RolesNotString)
              /\ (raw # << >> /\ BadToken(raw)) <=> (msg = RoleNotAlnum)
              /\ msg \in ParseErrors => UNCHANGED <<apps, users, groups>>
              /\ msg \notin (ParseErrors \cup {ReservedGroup, InvalidRole})
                 => /\ groupname \in Keys(groups')
                    /\ LET roles == Get(groups', groupname).roles
                       IN /\ Len(roles) = Commas(raw) + 1
                          /\ Join(roles) = Concat(raw)
                          /\ \A i \in 1..Len(roles) : roles[i] \in Range(ALL_ROLES)
                          /\ raw = <<"viewer", ",", "admin">>
                             => roles = <<"viewer", "admin">> ]_vars

C13_Witness ==
    /\ result.op = "add_group"
    /\ result.arg = <<"qa", <<"viewer", ",", "admin">> >>
    /\ ~result.failed
    /\ "qa" \in Keys(groups)
    /\ Get(groups, "qa").roles = <<"viewer", "admin">>

\* C14 (as claimed): a reconciliation pass whose validation and GUI step
\* succeeded, on a unit that is not ready or whose image has no
\* apache-karaf-* directory, raises no error, pushes no file, and leaves
\* the reserved administrator seeded.
C14_SkipSilently ==
    (result.op \in Passes /\ result.gui = "done" /\ (~ready \/ karaf = << >>))
    => /\ ~result.failed
       /\ ADMIN_USERNAME \in Keys(users)
       /\ usersFile = InitialUsersFile
       /\ logging = loggingInit

ActivateOps == {"activate_app", "deactivate_app"}

\* C15: activate-app and deactivate-app change the Active-Application Set
\* before they issue the remote call, and a failed call does not undo the
\* change: after a failed remote activate the set holds the identifier,
\* after a failed remote deactivate it does not, and repeating the command
\* is rejected by the already-active / not-active guard without a remote
\* call.
C15_NoRollback ==
    [][ result'.op \in ActivateOps
        => LET name == result'.arg[1] IN
           /\ result'.calls # << >>
              => /\ Len(result'.calls) = 1
                 /\ result'.op = "activate_app" => name \in apps' \ apps
                 /\ result'.op = "deactivate_app" => name \in apps \ apps'
           /\ (result.op = result'.op /\ result.arg = result'.arg
               /\ result.msg = ConnectionError)
              => /\ result'.msg = IF result'.op = "activate_app"
                                  THEN AlreadyActive ELSE NotActive
                 /\ result'.calls = << >>
                 /\ UNCHANGED apps ]_vars

C15_Witness ==
    /\ result.op = "activate_app"
    /\ result.msg = ConnectionError
    /\ Len(result.calls) = 1
    /\ result.arg[1] \in apps

CredentialOps == Passes \cup {"add_user", "add_group", "delete_user", "delete_group"}

UserLine(u) == u.name \o " = " \o u.password \o ",_g_:" \o u.group

GroupLine(g) == "_g_\\:" \o g.name \o " = " \o Join(g.roles)

\* C16: on a ready unit whose image has the apache-karaf-* directory,
\* after a reconciliation pass or an add-user, add-group, delete-user or
\* delete-group command that succeeded, the lines of the pushed
\* credentials file are exactly one line per stored user, in insertion
\* order, followed by one line per stored group, in insertion order, and
\* so hold no line for a deleted entry.
C16_FileMatchesStore ==
    (ready /\ karaf # << >> /\ result.op \in CredentialOps /\ ~result.failed)
    => LET lines == SelectSeq(usersFile, LAMBDA l : l # "") IN
       /\ Len(lines) = Len(users) + Len(groups)
       /\ \A i \in 1..Len(users) : lines[i] = UserLine(users[i])
       /\ \A i \in 1..Len(groups) : lines[Len(users) + i] = GroupLine(groups[i])

C16_Witness ==
    /\ ready
    /\ karaf # << >>
    /\ result.op = "add_user"
    /\ ~result.failed
    /\ Len(users) >= 2
    /\ Len(groups) >= 3
    /\ usersFile # InitialUsersFile

StartOps == {"onos_pebble_ready", "restart", "start"}

\* C17 (as claimed): whenever a pebble-ready pass, a restart command or a
\* start command has started the managed process, the ONOS_APPS value the
\* process runs with is the Active-Application Set of that moment.
C17_StartsWithCurrentApps ==
    (result.op \in StartOps /\ ~result.failed) => svcEnv = apps

\* C18 (as claimed): after every reconciliation pass that completed, the
\* password stored for the reserved administrator is the current
\* admin-password configuration value.
C18_AdminPasswordFollowsConfig ==
    PassDone(result)
    => /\ ADMIN_USERNAME \in Keys(users)
       /\ Get(users, ADMIN_USERNAME).password = config.adminPassword

\* every stored user names a stored group
GroupsExist(us, gs) == \A i \in 1..Len(us) : us[i].group \in Keys(gs)

\* C19 (as claimed): in every reachable state every user of the store
\* references a group that is present in the group map.
C19_UsersReferenceGroupsOriginal == GroupsExist(users, groups)

\* the stored users that name the group
Members(us, groupname) == {i \in 1..Len(us) : us[i].group = groupname}

\* C19 (amended): a user is stored by add-user only while its group is in
\* the group map, and a completed reconciliation pass leaves every reserved
\* user with its group present; a step makes some user reference a missing
\* group only if it is a delete-group of a group that users still name
\* (delete-group makes no referential check) or a failed command whose
\* credentials convergence step stored a reserved user and raised before
\* it seeded the default groups.
C19_UsersReferenceGroups ==
    [][ /\ (result'.op = "add_user" /\ result'.arg[1] \in Keys(users') \ Keys(users))
           => result'.arg[3] \in Keys(groups) \cap Keys(groups')
        /\ PassDone(result')
           => \A i \in 1..Len(users') :
                  users'[i].name \in Reserved => users'[i].group \in Keys(groups')
        /\ (GroupsExist(users, groups) /\ ~GroupsExist(users', groups'))
           => \/ /\ result'.op = "delete_group"
                 /\ result'.arg[1] \in Keys(groups) \ Keys(groups')
                 /\ Members(users, result'.arg[1]) # {}
              \/ /\ result'.op \in Commands
                 /\ result'.failed
                 /\ result'.addedUsers \cap Reserved # {}
                 /\ result'.addedGroups \cap {ADMIN_GROUP_NAME, GUEST_GROUP_NAME} = {} ]_vars

C19_Witness ==
    /\ result.op = "delete_group"
    /\ result.arg[1] \notin Keys(groups)
    /\ Members(users, result.arg[1]) # {}

\* C20: the started flag is set only by a pebble-ready pass that passed
\* validation, wrote the layer and (re)started the service, so started
\* implies ready in every state; a remote call is issued only by an event
\* that found the started flag set, that is after such a pass completed:
\* the first pebble-ready pass activates the GUI application in the local
\* set only, and the service gets it through the ONOS_APPS value of the
\* layer.
C20_StartedOnlyAfterPass ==
    [][ /\ started => ready
        /\ started' => ready'
        /\ (started' /\ ~started)
           => /\ result'.op = "onos_pebble_ready"
              /\ ~result'.failed
              /\ ValidConfig(config)
              /\ svc' = "active"
              /\ layer' = apps'
              /\ svcEnv' = apps'
        /\ result'.calls # << >> => started
        /\ (result'.op = "onos_pebble_ready" /\ ~started /\ ~result'.failed
            /\ config.enableGui)
           => /\ result'.calls = << >>
              /\ GUI_APP \in apps'
              /\ GUI_APP \in svcEnv' ]_vars

C20_Witness ==
    /\ result.op = "onos_pebble_ready"
    /\ ~result.failed
    /\ events = 1
    /\ started
    /\ ready
    /\ result.enableGui
    /\ result.calls = << >>
    /\ GUI_APP \in svcEnv

=============================================================================
